---- MODULE Spec2Model ----
(***************************************************************************)
(* LinkedIn connection checker: the run (run/main/loginToLinkedIn/         *)
(* processProfile of index.ts), the Google Sheets client                   *)
(* (google-sheets.ts: getProfiles, updateProfileStatus,                    *)
(* normalizeLinkedInUrl) and the decision logic of                         *)
(* determineConnectionStatus.                                              *)
(*                                                                         *)
(* Strings are sequences of tokens.  A URL token is one of "linkedin.com", *)
(* "/", "?", "in" or "a" (any other text); none of the patterns the code   *)
(* searches for ('linkedin.com', '?', '/', '/in/', 'linkedin.com/') can    *)
(* straddle two tokens otherwise than as the token sequence itself.        *)
(* Confidences are kept in hundredths (0.95 is 95).                        *)
(***************************************************************************)
EXTENDS Integers, Sequences, FiniteSets, TLC

VARIABLES
    pc,               \* control position of run()/main() or of a function harness
    fetchOutcome,     \* how the profile fetch of main ended
    sheetRows,        \* getProfiles: response.data.values behind the adopted profiles
    accessFailures,   \* update calls of main that ended before their first write
    profiles,         \* main: profiles
    idx,              \* main: position of the for..of loop in profiles
    results,          \* main: results (indexes into profiles)
    cookieFile,       \* the file at COOKIE_FILE_PATH
    cookiesLoaded,    \* loginToLinkedIn: cookiesLoaded
    sessionLoggedIn,  \* whether the browser session is logged in to LinkedIn
    cookieReads,      \* readFileSync calls on the cookie file
    cookieWrites,     \* writeFileSync calls on the cookie file
    navigated,        \* profile indexes handed to page.goto, in call order
    evaluation,       \* determineConnectionStatus: evaluation (the page signals)
    connectionStatus, \* processProfile: connectionStatus
    initialized,      \* GoogleSheetsClient.initialized of the client in use
    attempt,          \* updateProfileStatus: attempt
    writes,           \* values.update calls issued to the store, in call order
    waits,            \* backoff delays (ms) waited by the current updateProfileStatus
    updateResult,     \* how the current updateProfileStatus call stands
    thrown,           \* the error updateProfileStatus propagated to main
    diagnostic,       \* what main's catch reported for the current profile's update
    delays,           \* the delays (ms) main waited between profiles
    csvFile,          \* content of the CSV export file, NoFile when none was written
    url,              \* normalizeLinkedInUrl harness: the input
    normalizedUrl,    \* normalizeLinkedInUrl harness: normalize(url)
    renormalizedUrl,  \* normalizeLinkedInUrl harness: normalize(normalize(url))
    columnA,          \* updateStatus harness: response.data.values of the range A:A
    env,              \* process.env: the variables the program and run.sh name
    llmClient,        \* StagehandConfig.llmClient
    stagehandLlmClient \* the llmClient the Stagehand instance was constructed with

vars == <<pc, fetchOutcome, sheetRows, accessFailures,
          profiles, idx, results, cookieFile, cookiesLoaded,
          sessionLoggedIn, cookieReads, cookieWrites, navigated, evaluation,
          connectionStatus, initialized, attempt, writes, waits, updateResult,
          thrown, diagnostic, delays, csvFile, url, normalizedUrl, renormalizedUrl,
          columnA, env, llmClient, stagehandLlmClient>>

runVars == <<fetchOutcome, sheetRows, accessFailures,
             profiles, idx, results, cookieFile, cookiesLoaded,
             sessionLoggedIn, cookieReads, cookieWrites, navigated,
             initialized, attempt, writes, waits, updateResult,
             thrown, diagnostic, delays, csvFile>>

startupVars == <<env, llmClient, stagehandLlmClient>>

(***************************************************************************)
(* Bounds of the model                                                     *)
(***************************************************************************)
MaxUrlLen == 6          \* tokens of an input of normalizeLinkedInUrl
MaxDegreeLen == 2       \* tokens of the connection-degree badge text
MaxRows == 2            \* rows of column A the sheet read returns
MaxColumnLen == 3       \* rows of column A in the updateStatus harness

(***************************************************************************)
(* types.ts                                                                *)
(***************************************************************************)
PENDING == "pending"
ACCEPTED == "accepted"
NOT_CONNECTED == "not_connected"
UNKNOWN == "unknown"
ProfileStatus == {PENDING, ACCEPTED, NOT_CONNECTED, UNKNOWN}
Absent == "absent"      \* Profile.status not set (undefined)

(***************************************************************************)
(* Sequences of tokens as strings                                          *)
(***************************************************************************)
SeqsUpTo(S, n) == UNION {[1..k -> S] : k \in 0..n}

\* String.prototype.includes
Includes(s, pat) ==
    \E i \in 1..(Len(s) + 1) :
        /\ i + Len(pat) - 1 <= Len(s)
        /\ SubSeq(s, i, i + Len(pat) - 1) = pat

\* String.prototype.endsWith
EndsWith(s, pat) ==
    /\ Len(pat) <= Len(s)
    /\ SubSeq(s, Len(s) - Len(pat) + 1, Len(s)) = pat

\* position of the first occurrence of pat in s, 0 when there is none
IndexOf(s, pat) ==
    IF Includes(s, pat)
    THEN CHOOSE i \in 1..(Len(s) + 1) :
            /\ i + Len(pat) - 1 <= Len(s)
            /\ SubSeq(s, i, i + Len(pat) - 1) = pat
            /\ \A j \in 1..(i - 1) : SubSeq(s, j, j + Len(pat) - 1) # pat
    ELSE 0

\* String.prototype.replace with a string pattern: the first occurrence only
ReplaceFirst(s, pat, by) ==
    LET i == IndexOf(s, pat)
    IN IF i = 0 THEN s
       ELSE SubSeq(s, 1, i - 1) \o by \o SubSeq(s, i + Len(pat), Len(s))

\* url.split('?')[0]
BeforeQuery(s) ==
    LET i == IndexOf(s, <<"?">>)
    IN IF i = 0 THEN s ELSE SubSeq(s, 1, i - 1)

\* .replace(/\/$/, ''): one slash at the very end
StripTrailingSlash(s) ==
    IF Len(s) > 0 /\ s[Len(s)] = "/" THEN SubSeq(s, 1, Len(s) - 1) ELSE s

(***************************************************************************)
(* determineConnectionStatus: the decision logic                           *)
(***************************************************************************)
DegreeTokens == {"1st", "2nd", "3rd", "degree"}
DegreeMarkers == {<<"1st">>, <<"2nd">>, <<"3rd">>}

\* connectionDegree stays '' unless a badge text holds 1st, 2nd or 3rd
ConnectionDegrees ==
    {d \in SeqsUpTo(DegreeTokens, MaxDegreeLen) :
        d = <<>> \/ \E m \in DegreeMarkers : Includes(d, m)}

PageSignals ==
    [hasConnectButton : BOOLEAN, hasPendingButton : BOOLEAN,
     hasMessageButton : BOOLEAN, connectionDegree : ConnectionDegrees,
     isPendingInHtml : BOOLEAN, isConnectedInHtml : BOOLEAN]

NoSignals == [hasConnectButton |-> FALSE, hasPendingButton |-> FALSE,
              hasMessageButton |-> FALSE, connectionDegree |-> <<>>,
              isPendingInHtml |-> FALSE, isConnectedInHtml |-> FALSE]

NoResult == [status |-> Absent, confidence |-> 0]

DecidePendingIgnored(e) ==
    IF e.isConnectedInHtml \/ (e.hasMessageButton /\ ~e.hasConnectButton)
          \/ Includes(e.connectionDegree, <<"1st">>)
    THEN [status |-> ACCEPTED, confidence |-> 95]
    ELSE IF e.isPendingInHtml \/ e.hasPendingButton
    THEN [status |-> PENDING, confidence |-> 95]
    ELSE IF e.hasConnectButton \/ Includes(e.connectionDegree, <<"2nd">>)
          \/ Includes(e.connectionDegree, <<"3rd">>)
    THEN [status |-> NOT_CONNECTED, confidence |-> 90]
    ELSE [status |-> UNKNOWN, confidence |-> 50]

DecideConnectFirst(e) ==
    IF e.isPendingInHtml \/ e.hasPendingButton
    THEN [status |-> PENDING, confidence |-> 95]
    ELSE IF e.hasConnectButton \/ Includes(e.connectionDegree, <<"2nd">>)
          \/ Includes(e.connectionDegree, <<"3rd">>)
    THEN [status |-> NOT_CONNECTED, confidence |-> 90]
    ELSE IF e.isConnectedInHtml \/ (e.hasMessageButton /\ ~e.hasConnectButton)
          \/ Includes(e.connectionDegree, <<"1st">>)
    THEN [status |-> ACCEPTED, confidence |-> 95]
    ELSE [status |-> UNKNOWN, confidence |-> 50]

DecideMessageAlone(e) ==
    IF e.isPendingInHtml \/ e.hasPendingButton
    THEN [status |-> PENDING, confidence |-> 95]
    ELSE IF e.isConnectedInHtml \/ e.hasMessageButton
          \/ Includes(e.connectionDegree, <<"1st">>)
    THEN [status |-> ACCEPTED, confidence |-> 95]
    ELSE IF e.hasConnectButton \/ Includes(e.connectionDegree, <<"2nd">>)
          \/ Includes(e.connectionDegree, <<"3rd">>)
    THEN [status |-> NOT_CONNECTED, confidence |-> 90]
    ELSE [status |-> UNKNOWN, confidence |-> 50]

DecideNoThirdDegree(e) ==
    IF e.isPendingInHtml \/ e.hasPendingButton
    THEN [status |-> PENDING, confidence |-> 95]
    ELSE IF e.isConnectedInHtml \/ (e.hasMessageButton /\ ~e.hasConnectButton)
          \/ Includes(e.connectionDegree, <<"1st">>)
    THEN [status |-> ACCEPTED, confidence |-> 95]
    ELSE IF e.hasConnectButton \/ Includes(e.connectionDegree, <<"2nd">>)
    THEN [status |-> NOT_CONNECTED, confidence |-> 90]
    ELSE [status |-> UNKNOWN, confidence |-> 50]

DecideConfidenceNotReset(e) ==
    IF e.isPendingInHtml \/ e.hasPendingButton
    THEN [status |-> PENDING, confidence |-> 95]
    ELSE IF e.isConnectedInHtml \/ (e.hasMessageButton /\ ~e.hasConnectButton)
          \/ Includes(e.connectionDegree, <<"1st">>)
    THEN [status |-> ACCEPTED, confidence |-> 95]
    ELSE IF e.hasConnectButton \/ Includes(e.connectionDegree, <<"2nd">>)
          \/ Includes(e.connectionDegree, <<"3rd">>)
    THEN [status |-> NOT_CONNECTED, confidence |-> 50]
    ELSE [status |-> UNKNOWN, confidence |-> 50]

Decide(e) ==
    IF e.isPendingInHtml \/ e.hasPendingButton
    THEN [status |-> PENDING, confidence |-> 95]
    ELSE IF e.isConnectedInHtml \/ (e.hasMessageButton /\ ~e.hasConnectButton)
          \/ Includes(e.connectionDegree, <<"1st">>)
    THEN [status |-> ACCEPTED, confidence |-> 95]
    ELSE IF e.hasConnectButton \/ Includes(e.connectionDegree, <<"2nd">>)
          \/ Includes(e.connectionDegree, <<"3rd">>)
    THEN [status |-> NOT_CONNECTED, confidence |-> 90]
    ELSE [status |-> UNKNOWN, confidence |-> 50]

(***************************************************************************)
(* GoogleSheetsClient.normalizeLinkedInUrl                                 *)
(***************************************************************************)
Host == "linkedin.com"
UrlTokens == {Host, "/", "?", "in", "a"}
Urls == SeqsUpTo(UrlTokens, MaxUrlLen)
InSegment == <<"/", "in", "/">>

normalizeNoInsert(u) ==
    IF u = <<>> THEN <<>>
    ELSE IF ~Includes(u, <<Host>>) THEN u
    ELSE LET n == StripTrailingSlash(BeforeQuery(u))
         IN IF ~Includes(n, InSegment) /\ EndsWith(n, <<Host>>) THEN u ELSE n

normalizeKeepsQuery(u) ==
    IF u = <<>> THEN <<>>
    ELSE IF ~Includes(u, <<Host>>) THEN u
    ELSE LET n == StripTrailingSlash(u)
         IN IF ~Includes(n, InSegment)
            THEN IF EndsWith(n, <<Host>>) THEN u
                 ELSE ReplaceFirst(n, <<Host, "/">>, <<Host, "/", "in", "/">>)
            ELSE n

normalizeNoHostCheck(u) ==
    IF u = <<>> THEN <<>>
    ELSE LET n == StripTrailingSlash(BeforeQuery(u))
         IN IF ~Includes(n, InSegment)
            THEN IF EndsWith(n, <<Host>>) THEN u
                 ELSE ReplaceFirst(n, <<Host, "/">>, <<Host, "/", "in", "/">>)
            ELSE n

normalizeBareHostStripped(u) ==
    IF u = <<>> THEN <<>>
    ELSE IF ~Includes(u, <<Host>>) THEN u
    ELSE LET n == StripTrailingSlash(BeforeQuery(u))
         IN IF ~Includes(n, InSegment)
            THEN IF EndsWith(n, <<Host>>) THEN n
                 ELSE ReplaceFirst(n, <<Host, "/">>, <<Host, "/", "in", "/">>)
            ELSE n

normalizeLinkedInUrl(u) ==
    IF u = <<>> THEN <<>>
    ELSE IF ~Includes(u, <<Host>>) THEN u
    ELSE LET n == StripTrailingSlash(BeforeQuery(u))
         IN IF ~Includes(n, InSegment)
            THEN IF EndsWith(n, <<Host>>) THEN u
                 ELSE ReplaceFirst(n, <<Host, "/">>, <<Host, "/", "in", "/">>)
            ELSE n

(***************************************************************************)
(* The state of a run before run() starts; the function harnesses hold    *)
(* the run at this state.                                                  *)
(***************************************************************************)
NoFile == <<>>
NoError == [kind |-> "none", attempt |-> 0]
CookieFiles == {"absent", "valid", "expired", "corrupt"}

\* main: the default sample profiles
SampleProfiles ==
    << [url |-> <<Host, "/", "in", "/", "williamhgates">>, row |-> 2, status |-> Absent],
       [url |-> <<Host, "/", "in", "/", "satyanadella">>, row |-> 3, status |-> Absent],
       [url |-> <<Host, "/", "in", "/", "sundarpichai">>, row |-> 4, status |-> Absent] >>

(***************************************************************************)
(* stagehand.config.ts: the environment and the LLM client                 *)
(***************************************************************************)
\* a variable of process.env that is not set
Unset == "undefined"

NoEnv ==
    [AI_PROVIDER |-> Unset, OPENAI_API_KEY |-> Unset, ANTHROPIC_API_KEY |-> Unset,
     PROFILE_CHECK_DELAY |-> Unset]

\* no client object yet
NoClient == [type |-> "none", apiKey |-> Unset]

\* getDummyClient
getDummyClient == [type |-> "dummy", apiKey |-> Unset]

\* String.prototype.toLowerCase on the provider names
ToLowerCase(str) ==
    IF str = "OpenAI" THEN "openai"
    ELSE IF str = "Anthropic" THEN "anthropic"
    ELSE str

\* a string of process.env that is set and not empty
Truthy(str) == str # Unset /\ str # ""

\* getLLMClient; the constructors of the clients take the key from process.env
getLLMClient(e) ==
    LET aiProvider == IF e.AI_PROVIDER = Unset THEN Unset ELSE ToLowerCase(e.AI_PROVIDER)
    IN IF aiProvider = "openai" /\ Truthy(e.OPENAI_API_KEY)
       THEN [type |-> "openai", apiKey |-> e.OPENAI_API_KEY]
       ELSE IF aiProvider = "anthropic" /\ Truthy(e.ANTHROPIC_API_KEY)
            THEN [type |-> "anthropic", apiKey |-> e.ANTHROPIC_API_KEY]
            ELSE getDummyClient

\* the harnesses of the client module and of updateStatus at rest
StartupIdle ==
    /\ columnA = <<>>
    /\ env = NoEnv
    /\ llmClient = getLLMClient(NoEnv)
    /\ stagehandLlmClient = NoClient

RunIdle ==
    /\ fetchOutcome = "none"
    /\ sheetRows = <<>>
    /\ accessFailures = 0
    /\ profiles = SampleProfiles
    /\ idx = 1
    /\ results = <<>>
    /\ cookiesLoaded = FALSE
    /\ sessionLoggedIn = FALSE
    /\ cookieReads = 0
    /\ cookieWrites = 0
    /\ navigated = <<>>
    /\ initialized = FALSE
    /\ attempt = 0
    /\ writes = <<>>
    /\ waits = <<>>
    /\ updateResult = "none"
    /\ thrown = NoError
    /\ diagnostic = "none"
    /\ delays = <<>>
    /\ csvFile = NoFile

(***************************************************************************)
(* Harness of the decision logic: every PageSignals value is classified.   *)
(***************************************************************************)
InitClassify ==
    /\ pc = "classify_input"
    /\ evaluation \in PageSignals
    /\ connectionStatus = NoResult
    /\ cookieFile = "absent"
    /\ RunIdle
    /\ StartupIdle
    /\ url = <<>>
    /\ normalizedUrl = <<>>
    /\ renormalizedUrl = <<>>

ClassifySignals ==
    /\ pc = "classify_input"
    /\ connectionStatus' = Decide(evaluation)
    /\ pc' = "classified"
    /\ UNCHANGED <<runVars, evaluation, url, normalizedUrl, renormalizedUrl, columnA,
                   startupVars>>

NextClassify == ClassifySignals

SpecClassify == InitClassify /\ [][NextClassify]_vars

(***************************************************************************)
(* Harness of normalizeLinkedInUrl: every input is normalized, and the     *)
(* result is normalized again.                                             *)
(***************************************************************************)
InitNormalize ==
    /\ pc = "normalize_input"
    /\ url \in Urls
    /\ normalizedUrl = <<>>
    /\ renormalizedUrl = <<>>
    /\ evaluation = NoSignals
    /\ connectionStatus = NoResult
    /\ cookieFile = "absent"
    /\ RunIdle
    /\ StartupIdle

NormalizeInput ==
    /\ pc = "normalize_input"
    /\ normalizedUrl' = normalizeLinkedInUrl(url)
    /\ pc' = "normalized"
    /\ UNCHANGED <<runVars, evaluation, connectionStatus, url, renormalizedUrl, columnA,
                   startupVars>>

NormalizeAgain ==
    /\ pc = "normalized"
    /\ renormalizedUrl' = normalizeLinkedInUrl(normalizedUrl)
    /\ pc' = "renormalized"
    /\ UNCHANGED <<runVars, evaluation, connectionStatus, url, normalizedUrl, columnA,
                   startupVars>>

NextNormalize == NormalizeInput \/ NormalizeAgain

SpecNormalize == InitNormalize /\ [][NextNormalize]_vars

(***************************************************************************)
(* GoogleSheetsClient.getProfiles: the rows read from A2:A                 *)
(***************************************************************************)
\* a cell of column A: blank, or a profile URL as typed into the sheet
CellValues ==
    { <<>>,
      <<Host, "/", "in", "/", "a", "/">>,
      <<Host, "/", "in", "/", "b", "?", "a">> }
Sheets == SeqsUpTo(CellValues, MaxRows)

\* !row[0] || row[0].trim() === ''
IsBlank(cell) == \A i \in 1..Len(cell) : cell[i] = " "

NoProfile == [url |-> <<>>, row |-> 0, status |-> Absent]

\* variant: blank cells dropped before the rows are numbered
getProfilesRenumbered(rows) ==
    LET filled == SelectSeq(rows, LAMBDA cell : ~IsBlank(cell))
    IN [i \in 1..Len(filled) |->
           [url |-> normalizeLinkedInUrl(filled[i]),
            row |-> (i - 1) + 2,
            status |-> Absent]]

getProfiles(rows) ==
    LET mapped == [i \in 1..Len(rows) |->
                      IF IsBlank(rows[i]) THEN NoProfile
                      ELSE [url |-> normalizeLinkedInUrl(rows[i]),
                            row |-> (i - 1) + 2,
                            status |-> Absent]]
    IN SelectSeq(mapped, LAMBDA p : p # NoProfile)

(***************************************************************************)
(* GoogleSheetsClient.updateProfileStatus: constants and the request       *)
(***************************************************************************)
maxRetriesOneMore == 3 + 1

maxRetries == 3
DefaultConfidence == 90     \* confidence: number = 0.9
ProfileDelay == 3000        \* setTimeout(resolve, 3000)
ErrorKinds == {"permission", "transient"}

BackoffDelayFixed(n) == 1000

\* const delay = attempt * 1000
BackoffDelay(n) == n * 1000

\* confidence.toString() of a confidence kept in hundredths
ConfidenceToString(c) ==
    IF c = 95 THEN "0.95"
    ELSE IF c = 90 THEN "0.9"
    ELSE IF c = 50 THEN "0.5"
    ELSE "0"

\* the values.update request: range B<row>:C<row>, values [[status, confidence]]
\* variant: the range starts one column to the left
UpdateRequestColumnA(rowNumber, status, confidence) ==
    [row |-> rowNumber, columns |-> <<"A", "B">>,
     values |-> <<status, ConfidenceToString(confidence)>>]

UpdateRequest(rowNumber, status, confidence) ==
    [row |-> rowNumber, columns |-> <<"B", "C">>,
     values |-> <<status, ConfidenceToString(confidence)>>]

\* exportResultsToCSV: the lines of the file
CsvContent(items) ==
    <<"LinkedIn URL,Connection Status">> \o
    [i \in 1..Len(items) |-> <<items[i].url, ",", items[i].status>>]

(***************************************************************************)
(* The run: run() and main()                                               *)
(***************************************************************************)
Init ==
    /\ pc = "run"
    /\ cookieFile \in CookieFiles
    /\ RunIdle
    /\ StartupIdle
    /\ evaluation = NoSignals
    /\ connectionStatus = NoResult
    /\ url = <<>>
    /\ normalizedUrl = <<>>
    /\ renormalizedUrl = <<>>

harnessVars == <<url, normalizedUrl, renormalizedUrl, columnA, startupVars>>
loginVars == <<cookieFile, cookiesLoaded, sessionLoggedIn, cookieReads, cookieWrites>>
loopVars == <<profiles, idx, results, navigated, evaluation, connectionStatus>>
updateVars == <<initialized, attempt, writes, waits, updateResult, thrown, diagnostic>>

(***************************************************************************)
(* Harness of the start of the program: the import of stagehand.config,    *)
(* the environment run() sets and the construction of the Stagehand        *)
(* instance. In the run below this is the one step RunSetup.               *)
(***************************************************************************)
\* the environment of the process when the program starts
Environments ==
    [AI_PROVIDER : {Unset, "openai", "anthropic", "OpenAI"},
     OPENAI_API_KEY : {Unset, "sk-old"},
     ANTHROPIC_API_KEY : {Unset, "sk-old"},
     PROFILE_CHECK_DELAY : {Unset}]

\* the .env file: none, or the one run.sh writes
DotEnvFiles ==
    { NoEnv,
      [AI_PROVIDER |-> "anthropic", OPENAI_API_KEY |-> "", ANTHROPIC_API_KEY |-> "sk-file",
       PROFILE_CHECK_DELAY |-> "3000"] }

\* dotenv.config(): a variable that is already set is not overridden
DotEnvConfig(e, file) ==
    [name \in DOMAIN e |-> IF e[name] # Unset THEN e[name] ELSE file[name]]

\* the keys getSetupInfo can return: a key, or the empty line
ApiKeys == {"sk-new", ""}

InitStartup ==
    /\ pc = "import"
    /\ env \in Environments
    /\ llmClient = NoClient
    /\ stagehandLlmClient = NoClient
    /\ columnA = <<>>
    /\ evaluation = NoSignals
    /\ connectionStatus = NoResult
    /\ cookieFile = "absent"
    /\ RunIdle
    /\ url = <<>>
    /\ normalizedUrl = <<>>
    /\ renormalizedUrl = <<>>

\* import StagehandConfig from "./stagehand.config.js": dotenv.config() and the
\* object literal, whose llmClient property is the value of getLLMClient() then
ImportStagehandConfig ==
    /\ pc = "import"
    /\ \E file \in DotEnvFiles :
          /\ env' = DotEnvConfig(env, file)
          /\ llmClient' = getLLMClient(env')
    /\ pc' = "setup"
    /\ UNCHANGED <<runVars, evaluation, connectionStatus, url, normalizedUrl,
                   renormalizedUrl, columnA, stagehandLlmClient>>

\* run: getSetupInfo and the assignments to process.env
RunSetEnvironment ==
    /\ pc = "setup"
    /\ \E provider \in {"openai", "anthropic"}, apiKey \in ApiKeys :
          env' = IF provider = "openai"
                 THEN [env EXCEPT !.AI_PROVIDER = provider, !.OPENAI_API_KEY = apiKey]
                 ELSE [env EXCEPT !.AI_PROVIDER = provider, !.ANTHROPIC_API_KEY = apiKey]
    /\ pc' = "construct"
    /\ UNCHANGED <<runVars, evaluation, connectionStatus, url, normalizedUrl,
                   renormalizedUrl, columnA, llmClient, stagehandLlmClient>>

\* run: new Stagehand({...StagehandConfig})
NewStagehand ==
    /\ pc = "construct"
    /\ stagehandLlmClient' = llmClient
    /\ pc' = "stagehand_built"
    /\ UNCHANGED <<runVars, evaluation, connectionStatus, url, normalizedUrl,
                   renormalizedUrl, columnA, env, llmClient>>

NextStartup == ImportStagehandConfig \/ RunSetEnvironment \/ NewStagehand

SpecStartup == InitStartup /\ [][NextStartup]_vars

(***************************************************************************)
(* Harness of updateStatus: the call with a profile URL and no rowIndex,   *)
(* over every column A and URL of the bounds                               *)
(***************************************************************************)
\* the cells of column A: blank, white space, a header text and profile URLs
ColumnCells ==
    CellValues \cup { <<" ">>, <<"a">>, <<Host, "/", "in", "/", "a">> }

ProfileUrls ==
    { <<>>, <<Host, "/", "in", "/", "a">>, <<Host, "/", "in", "/", "b", "/">>, <<"a">>,
      <<" ">> }

\* variant: the index is counted from 1
findRowIndexOneBased(rows, profileUrl) ==
    LET hits == { i \in 1..Len(rows) :
                    /\ rows[i] # <<>>
                    /\ normalizeLinkedInUrl(rows[i]) = normalizeLinkedInUrl(profileUrl) }
    IN IF hits = {} THEN -1
       ELSE CHOOSE i \in hits : \A j \in hits : i <= j

\* findRowIndexByProfileUrl: rows.findIndex, the 0-based index of the first row
\* whose cell is not empty and normalizes to the normalized URL, or -1
findRowIndexByProfileUrl(rows, profileUrl) ==
    LET hits == { i \in 1..Len(rows) :
                    /\ rows[i] # <<>>
                    /\ normalizeLinkedInUrl(rows[i]) = normalizeLinkedInUrl(profileUrl) }
    IN IF hits = {} THEN -1
       ELSE (CHOOSE i \in hits : \A j \in hits : i <= j) - 1

InitUpdateStatus ==
    /\ pc = "updatestatus_input"
    /\ columnA \in SeqsUpTo(ColumnCells, MaxColumnLen)
    /\ url \in ProfileUrls
    /\ env = NoEnv
    /\ llmClient = getLLMClient(NoEnv)
    /\ stagehandLlmClient = NoClient
    /\ evaluation = NoSignals
    /\ connectionStatus = NoResult
    /\ cookieFile = "absent"
    /\ RunIdle
    /\ normalizedUrl = <<>>
    /\ renormalizedUrl = <<>>

\* updateStatus(profileUrl, status, confidence): init, findRowIndexByProfileUrl, and
\* updateProfileStatus(rowIndex + 1, status, confidence) with its retry loop
UpdateStatus ==
    /\ pc = "updatestatus_input"
    /\ LET rowIndex == findRowIndexByProfileUrl(columnA, url)
           targetRow == rowIndex + 1
       IN \/ \E outcome \in {"init_failed", "read_failed"}, kind \in ErrorKinds :
                /\ initialized' = (outcome # "init_failed")
                /\ thrown' = [kind |-> kind, attempt |-> 0]
                /\ updateResult' = "threw"
                /\ UNCHANGED <<writes, waits>>
          \/ /\ rowIndex = -1
             /\ initialized' = TRUE
             /\ thrown' = [kind |-> "not_found", attempt |-> 0]
             /\ updateResult' = "threw"
             /\ UNCHANGED <<writes, waits>>
          \/ /\ rowIndex # -1
             /\ initialized' = TRUE
             /\ \E status \in ProfileStatus, confidence \in {50, 95},
                   n \in 1..maxRetries, ok \in BOOLEAN, kind \in ErrorKinds :
                   /\ ok \/ n = maxRetries
                   /\ ok => kind = "transient"
                   /\ writes' = [i \in 1..n |->
                                    [request |-> UpdateRequest(targetRow, status, confidence),
                                     profile |-> idx, attempt |-> i, ok |-> (i = n /\ ok)]]
                   /\ waits' = [i \in 1..(n - 1) |-> BackoffDelay(i)]
                   /\ updateResult' = IF ok THEN "returned" ELSE "threw"
                   /\ thrown' = IF ok THEN NoError ELSE [kind |-> kind, attempt |-> n]
    /\ pc' = "updatestatus_done"
    /\ UNCHANGED <<fetchOutcome, sheetRows, accessFailures, loginVars, loopVars, attempt,
                   diagnostic, delays, csvFile, url, normalizedUrl, renormalizedUrl,
                   columnA, startupVars>>

NextUpdateStatus == UpdateStatus

SpecUpdateStatus == InitUpdateStatus /\ [][NextUpdateStatus]_vars

(***************************************************************************)
(* The steps of the run                                                    *)
(***************************************************************************)
\* run: getSetupInfo, the environment it sets, new Stagehand and stagehand.init;
\* an error here reaches run's catch: process.exit(1). Which LLM client the
\* instance gets does not bear on main; SpecStartup follows it step by step
RunSetup ==
    /\ pc = "run"
    /\ \E ok \in BOOLEAN : pc' = IF ok THEN "fetch" ELSE "aborted"
    /\ UNCHANGED <<fetchOutcome, sheetRows, accessFailures, loginVars, loopVars, updateVars, delays, csvFile, harnessVars>>

\* main: the try block that fetches the profiles, and its catch
FetchProfilesAbortOnError ==
    /\ pc = "fetch"
    /\ \/ \E failure \in {"init_failed", "read_failed"} :
             /\ fetchOutcome' = failure
             /\ pc' = "aborted"
             /\ UNCHANGED <<profiles, sheetRows>>
       \/ \E rows \in Sheets :
             LET fetchedProfiles == getProfiles(rows)
             IN /\ fetchOutcome' = IF Len(fetchedProfiles) > 0 THEN "fetched" ELSE "empty"
                /\ profiles' = IF Len(fetchedProfiles) > 0 THEN fetchedProfiles ELSE profiles
                /\ sheetRows' = IF Len(fetchedProfiles) > 0 THEN rows ELSE sheetRows
                /\ pc' = "login"
    /\ UNCHANGED <<accessFailures, loginVars, idx, results, navigated, evaluation,
                   connectionStatus, updateVars, delays, csvFile, harnessVars>>

FetchProfiles ==
    /\ pc = "fetch"
    /\ \/ \E failure \in {"init_failed", "read_failed"} :
             \* new GoogleSheetsClient or init threw, or values.get threw: caught
             /\ fetchOutcome' = failure
             /\ UNCHANGED <<profiles, sheetRows>>
       \/ \E rows \in Sheets :
             LET fetchedProfiles == getProfiles(rows)
             IN /\ fetchOutcome' = IF Len(fetchedProfiles) > 0 THEN "fetched" ELSE "empty"
                /\ profiles' = IF Len(fetchedProfiles) > 0 THEN fetchedProfiles ELSE profiles
                /\ sheetRows' = IF Len(fetchedProfiles) > 0 THEN rows ELSE sheetRows
    /\ pc' = "login"
    /\ UNCHANGED <<accessFailures, loginVars, idx, results, navigated, evaluation,
                   connectionStatus, updateVars, delays, csvFile, harnessVars>>

(***************************************************************************)
(* loginToLinkedIn                                                         *)
(***************************************************************************)
\* existsSync, readFileSync, JSON.parse, addCookies, cookiesLoaded = true
LoginLoadCookies ==
    /\ pc = "login"
    /\ \/ /\ cookieFile = "absent"
          /\ pc' = "login_gate"
          /\ UNCHANGED <<cookiesLoaded, sessionLoggedIn, cookieReads>>
       \/ /\ cookieFile = "corrupt"          \* JSON.parse throws: caught
          /\ cookieReads' = cookieReads + 1
          /\ pc' = "login_gate"
          /\ UNCHANGED <<cookiesLoaded, sessionLoggedIn>>
       \/ /\ cookieFile \in {"valid", "expired"}
          /\ cookieReads' = cookieReads + 1
          /\ cookiesLoaded' = TRUE
          /\ sessionLoggedIn' = (cookieFile = "valid")
          /\ pc' = "login_feed"
    /\ UNCHANGED <<fetchOutcome, sheetRows, accessFailures, cookieFile, cookieWrites, loopVars, updateVars,
                   delays, csvFile, harnessVars>>

\* page.goto(feed) and the isLoggedIn evaluation
LoginCheckFeed ==
    /\ pc = "login_feed"
    /\ \E loaded \in BOOLEAN :
          pc' = IF loaded /\ sessionLoggedIn
                THEN "loop"          \* return
                ELSE "login_gate"    \* cookies expired, or goto/evaluate threw: caught
    /\ UNCHANGED <<fetchOutcome, sheetRows, accessFailures, loginVars, loopVars, updateVars, delays, csvFile, harnessVars>>

\* if (!cookiesLoaded) { manual login } ; otherwise the function returns
LoginGate ==
    /\ pc = "login_gate"
    /\ pc' = IF ~cookiesLoaded THEN "login_page" ELSE "loop"
    /\ UNCHANGED <<fetchOutcome, sheetRows, accessFailures, loginVars, loopVars, updateVars, delays, csvFile, harnessVars>>

\* page.goto(login): outside any try, an error leaves main and reaches run's catch
LoginOpenPage ==
    /\ pc = "login_page"
    /\ \E loaded \in BOOLEAN : pc' = IF loaded THEN "login_wait" ELSE "aborted"
    /\ UNCHANGED <<fetchOutcome, sheetRows, accessFailures, loginVars, loopVars, updateVars, delays, csvFile, harnessVars>>

\* variant: the cookies are saved although the wait for the login timed out
LoginWaitSavesOnTimeout ==
    /\ pc = "login_wait"
    /\ \E outcome \in {"logged_in", "save_failed", "timeout"} :
          \/ /\ outcome = "logged_in"
             /\ sessionLoggedIn' = TRUE
             /\ cookieFile' = "valid"
             /\ cookieWrites' = cookieWrites + 1
             /\ pc' = "loop"
          \/ /\ outcome = "save_failed"      \* cookies() or writeFileSync threw
             /\ sessionLoggedIn' = TRUE
             /\ pc' = "aborted"
             /\ UNCHANGED <<cookieFile, cookieWrites>>
          \/ /\ outcome = "timeout"
             /\ cookieWrites' = cookieWrites + 1
             /\ pc' = "aborted"
             /\ UNCHANGED <<sessionLoggedIn, cookieFile>>
    /\ UNCHANGED <<fetchOutcome, sheetRows, accessFailures, cookiesLoaded, cookieReads, loopVars, updateVars,
                   delays, csvFile, harnessVars>>

\* waitForNavigation, context.cookies, writeFileSync, and the catch that throws
LoginWait ==
    /\ pc = "login_wait"
    /\ \E outcome \in {"logged_in", "save_failed", "timeout"} :
          \/ /\ outcome = "logged_in"
             /\ sessionLoggedIn' = TRUE
             /\ cookieFile' = "valid"
             /\ cookieWrites' = cookieWrites + 1
             /\ pc' = "loop"
          \/ /\ outcome = "save_failed"      \* cookies() or writeFileSync threw
             /\ sessionLoggedIn' = TRUE
             /\ pc' = "aborted"
             /\ UNCHANGED <<cookieFile, cookieWrites>>
          \/ /\ outcome = "timeout"          \* waitForNavigation threw
             /\ pc' = "aborted"
             /\ UNCHANGED <<sessionLoggedIn, cookieFile, cookieWrites>>
    /\ UNCHANGED <<fetchOutcome, sheetRows, accessFailures, cookiesLoaded, cookieReads, loopVars, updateVars,
                   delays, csvFile, harnessVars>>

(***************************************************************************)
(* main: the loop over the profiles, processProfile and the sheet update   *)
(***************************************************************************)
\* for (const profile of profiles): the next profile, or the summary and return
LoopHead ==
    /\ pc = "loop"
    /\ pc' = IF idx <= Len(profiles) THEN "navigate" ELSE "done"
    /\ UNCHANGED <<fetchOutcome, sheetRows, accessFailures, loginVars, loopVars, updateVars, delays, csvFile, harnessVars>>

\* variant: the update is made without the test of profile.status
NavigateFailureWrites ==
    /\ pc = "navigate"
    /\ navigated' = Append(navigated, idx)
    /\ \E loaded \in BOOLEAN : pc' = IF loaded THEN "ratecheck" ELSE "update"
    /\ UNCHANGED <<fetchOutcome, sheetRows, accessFailures, loginVars, profiles, idx, results,
                   evaluation, connectionStatus, updateVars, delays, csvFile, harnessVars>>

NavigateAbortOnError ==
    /\ pc = "navigate"
    /\ navigated' = Append(navigated, idx)
    /\ \E loaded \in BOOLEAN : pc' = IF loaded THEN "ratecheck" ELSE "aborted"
    /\ UNCHANGED <<fetchOutcome, sheetRows, accessFailures, loginVars, profiles, idx, results, evaluation,
                   connectionStatus, updateVars, delays, csvFile, harnessVars>>

\* processProfile: page.goto(profile.url); an error reaches the catch of the loop body
Navigate ==
    /\ pc = "navigate"
    /\ navigated' = Append(navigated, idx)
    /\ \E loaded \in BOOLEAN : pc' = IF loaded THEN "ratecheck" ELSE "delay"
    /\ UNCHANGED <<fetchOutcome, sheetRows, accessFailures, loginVars, profiles, idx, results, evaluation,
                   connectionStatus, updateVars, delays, csvFile, harnessVars>>

\* processProfile: the rate-limit check, which throws when the page is rate limited
RateCheck ==
    /\ pc = "ratecheck"
    /\ \E isRateLimited \in BOOLEAN : pc' = IF isRateLimited THEN "delay" ELSE "classify"
    /\ UNCHANGED <<fetchOutcome, sheetRows, accessFailures, loginVars, loopVars, updateVars, delays, csvFile, harnessVars>>

\* processProfile: determineConnectionStatus and profile.status = ...; then main's
\* results.push(profile) and if (profile.status), true of every status string
Classify ==
    /\ pc = "classify"
    /\ \E result \in {Decide(e) : e \in PageSignals} :
          /\ connectionStatus' = result
          /\ profiles' = [profiles EXCEPT ![idx].status = result.status]
    /\ results' = Append(results, idx)
    /\ pc' = "update"
    /\ UNCHANGED <<fetchOutcome, sheetRows, accessFailures, loginVars, idx, navigated, evaluation, updateVars,
                   delays, csvFile, harnessVars>>

\* main's catch of the update: the message tells a sheet that is not writable
Diagnose(kind) == IF kind = "permission" THEN "not_writable" ELSE "generic"

\* variant: every update is aimed at the row of the first profile
MainUpdateCallFirstRow ==
    [rowNumber |-> profiles[1].row, status |-> profiles[idx].status,
     confidence |-> DefaultConfidence]

\* sheetsClient.updateProfileStatus(profile.row, profile.status): no confidence is
\* passed, the parameter takes its default
MainUpdateCall ==
    [rowNumber |-> profiles[idx].row, status |-> profiles[idx].status,
     confidence |-> DefaultConfidence]

\* variant: the update is started and the loop body goes on without its end
UpdateStartNotAwaited ==
    /\ pc = "update"
    /\ \E outcome \in {"ok", "ctor_failed", "init_failed"}, kind \in ErrorKinds :
          \/ /\ outcome = "ok"
             /\ initialized' = TRUE
             /\ attempt' = 1
             /\ updateResult' = "running"
             /\ pc' = "delay"
             /\ UNCHANGED <<thrown, diagnostic, accessFailures>>
          \/ /\ outcome = "ctor_failed"
             /\ diagnostic' = Diagnose(kind)
             /\ accessFailures' = accessFailures + 1
             /\ pc' = "delay"
             /\ UNCHANGED <<initialized, attempt, updateResult, thrown>>
          \/ /\ outcome = "init_failed"
             /\ updateResult' = "threw"
             /\ thrown' = [kind |-> kind, attempt |-> 0]
             /\ diagnostic' = Diagnose(kind)
             /\ accessFailures' = accessFailures + 1
             /\ pc' = "delay"
             /\ UNCHANGED <<initialized, attempt>>
    /\ UNCHANGED <<fetchOutcome, sheetRows, loginVars, loopVars, writes, waits, delays, csvFile,
                   harnessVars>>

\* variant: the error of init is swallowed and the write is attempted
UpdateStartWritesUnverified ==
    /\ pc = "update"
    /\ \E outcome \in {"ok", "ctor_failed", "init_failed"}, kind \in ErrorKinds :
          \/ /\ outcome = "ok"
             /\ initialized' = TRUE
             /\ attempt' = 1
             /\ updateResult' = "running"
             /\ pc' = "attempt"
             /\ UNCHANGED <<thrown, diagnostic, accessFailures>>
          \/ /\ outcome = "ctor_failed"
             /\ diagnostic' = Diagnose(kind)
             /\ accessFailures' = accessFailures + 1
             /\ pc' = "delay"
             /\ UNCHANGED <<initialized, attempt, updateResult, thrown>>
          \/ /\ outcome = "init_failed"
             /\ attempt' = 1
             /\ updateResult' = "running"
             /\ pc' = "attempt"
             /\ UNCHANGED <<initialized, thrown, diagnostic, accessFailures>>
    /\ UNCHANGED <<fetchOutcome, sheetRows, loginVars, loopVars, writes, waits, delays, csvFile,
                   harnessVars>>

\* new GoogleSheetsClient and, in updateProfileStatus, init of a client not yet
\* initialized; an error of either reaches main's catch of the update
UpdateStart ==
    /\ pc = "update"
    /\ \E outcome \in {"ok", "ctor_failed", "init_failed"}, kind \in ErrorKinds :
          \/ /\ outcome = "ok"
             /\ initialized' = TRUE
             /\ attempt' = 1
             /\ updateResult' = "running"
             /\ pc' = "attempt"
             /\ UNCHANGED <<thrown, diagnostic, accessFailures>>
          \/ /\ outcome = "ctor_failed"
             /\ diagnostic' = Diagnose(kind)
             /\ accessFailures' = accessFailures + 1
             /\ pc' = "delay"
             /\ UNCHANGED <<initialized, attempt, updateResult, thrown>>
          \/ /\ outcome = "init_failed"
             /\ updateResult' = "threw"
             /\ thrown' = [kind |-> kind, attempt |-> 0]
             /\ diagnostic' = Diagnose(kind)
             /\ accessFailures' = accessFailures + 1
             /\ pc' = "delay"
             /\ UNCHANGED <<initialized, attempt>>
    /\ UNCHANGED <<fetchOutcome, sheetRows, loginVars, loopVars, writes, waits, delays, csvFile,
                   harnessVars>>

WriteEntry(call, ok) ==
    [request |-> UpdateRequest(call.rowNumber, call.status, call.confidence),
     profile |-> idx, attempt |-> attempt, ok |-> ok]

\* variant: a permission error is rethrown at once, without retry
UpdateAttemptPermissionFatal ==
    /\ pc = "attempt"
    /\ attempt <= maxRetries
    /\ \E ok \in BOOLEAN, kind \in ErrorKinds :
          /\ writes' = Append(writes, WriteEntry(MainUpdateCall, ok))
          /\ \/ /\ ok
                /\ updateResult' = "returned"
                /\ pc' = "delay"
                /\ UNCHANGED <<attempt, waits, thrown, diagnostic>>
             \/ /\ ~ok
                /\ attempt < maxRetries /\ kind # "permission"
                /\ waits' = Append(waits, BackoffDelay(attempt))
                /\ attempt' = attempt + 1
                /\ UNCHANGED <<pc, updateResult, thrown, diagnostic>>
             \/ /\ ~ok
                /\ ~(attempt < maxRetries) \/ kind = "permission"
                /\ thrown' = [kind |-> kind, attempt |-> attempt]
                /\ updateResult' = "threw"
                /\ diagnostic' = Diagnose(kind)
                /\ pc' = "delay"
                /\ UNCHANGED <<attempt, waits>>
    /\ UNCHANGED <<fetchOutcome, sheetRows, accessFailures, loginVars, loopVars, initialized, delays, csvFile,
                   harnessVars>>

\* updateProfileStatus: one pass of the retry loop, the values.update call and its
\* catch (wait attempt * 1000 ms and go on, or rethrow after the last attempt)
UpdateAttempt ==
    /\ pc = "attempt"
    /\ attempt <= maxRetries
    /\ \E ok \in BOOLEAN, kind \in ErrorKinds :
          /\ writes' = Append(writes, WriteEntry(MainUpdateCall, ok))
          /\ \/ /\ ok
                /\ updateResult' = "returned"
                /\ pc' = "delay"
                /\ UNCHANGED <<attempt, waits, thrown, diagnostic>>
             \/ /\ ~ok
                /\ attempt < maxRetries
                /\ waits' = Append(waits, BackoffDelay(attempt))
                /\ attempt' = attempt + 1
                /\ UNCHANGED <<pc, updateResult, thrown, diagnostic>>
             \/ /\ ~ok
                /\ ~(attempt < maxRetries)
                /\ thrown' = [kind |-> kind, attempt |-> attempt]
                /\ updateResult' = "threw"
                /\ diagnostic' = Diagnose(kind)
                /\ pc' = "delay"
                /\ UNCHANGED <<attempt, waits>>
    /\ UNCHANGED <<fetchOutcome, sheetRows, accessFailures, loginVars, loopVars, initialized, delays, csvFile,
                   harnessVars>>

\* the delay that ends the loop body; the client of this profile is dropped
Delay ==
    /\ pc = "delay"
    /\ delays' = Append(delays, ProfileDelay)
    /\ idx' = idx + 1
    /\ initialized' = FALSE
    /\ attempt' = 0
    /\ waits' = <<>>
    /\ updateResult' = "none"
    /\ thrown' = NoError
    /\ diagnostic' = "none"
    /\ pc' = "loop"
    /\ UNCHANGED <<fetchOutcome, sheetRows, accessFailures, loginVars, profiles, results, navigated, evaluation,
                   connectionStatus, writes, csvFile, harnessVars>>

Next ==
    \/ RunSetup
    \/ FetchProfiles
    \/ LoginLoadCookies
    \/ LoginCheckFeed
    \/ LoginGate
    \/ LoginOpenPage
    \/ LoginWait
    \/ LoopHead
    \/ Navigate
    \/ RateCheck
    \/ Classify
    \/ UpdateStart
    \/ UpdateAttempt
    \/ Delay

Spec == Init /\ [][Next]_vars

\* every await of the run returns or fails: the run takes its next step
FairSpec == Spec /\ WF_vars(Next)

\* the program started through run.sh, which writes PROFILE_CHECK_DELAY to .env
ConfiguredDelays == {"3000", "5000"}

InitConfigured ==
    /\ pc = "run"
    /\ cookieFile \in CookieFiles
    /\ RunIdle
    /\ columnA = <<>>
    /\ env \in {[NoEnv EXCEPT !.PROFILE_CHECK_DELAY = delay] : delay \in ConfiguredDelays}
    /\ llmClient = getLLMClient(env)
    /\ stagehandLlmClient = NoClient
    /\ evaluation = NoSignals
    /\ connectionStatus = NoResult
    /\ url = <<>>
    /\ normalizedUrl = <<>>
    /\ renormalizedUrl = <<>>

SpecConfigured == InitConfigured /\ [][Next]_vars

(***************************************************************************)
(* Claims about the decision logic                                         *)
(***************************************************************************)
Classified == pc = "classified"

\* C1: whenever isPendingInHtml or hasPendingButton is set, the decision logic
\* returns PENDING with confidence 0.95, whatever the other signals are.
C1_PendingPrecedence ==
    (Classified /\ (evaluation.isPendingInHtml \/ evaluation.hasPendingButton))
        => (connectionStatus.status = PENDING /\ connectionStatus.confidence = 95)

\* a pending page that also shows every accepted and not-connected indicator
C1_Witness ==
    /\ Classified
    /\ evaluation.isPendingInHtml
    /\ evaluation.isConnectedInHtml
    /\ evaluation.hasConnectButton
    /\ evaluation.hasMessageButton
    /\ Includes(evaluation.connectionDegree, <<"1st">>)
    /\ connectionStatus.status = PENDING

AcceptedIndicator(e) ==
    \/ e.isConnectedInHtml
    \/ (e.hasMessageButton /\ ~e.hasConnectButton)
    \/ Includes(e.connectionDegree, <<"1st">>)

\* C10: with no pending indicator, the decision logic returns ACCEPTED with
\* confidence 0.95 when isConnectedInHtml is set, or hasMessageButton is set and
\* hasConnectButton is not, or the degree contains "1st"; also when hasConnectButton
\* or a 2nd/3rd badge is present.
C10_AcceptedRule ==
    (/\ Classified
     /\ ~evaluation.isPendingInHtml
     /\ ~evaluation.hasPendingButton
     /\ AcceptedIndicator(evaluation))
        => (connectionStatus.status = ACCEPTED /\ connectionStatus.confidence = 95)

\* a "1st" badge together with a Connect button and a "2nd" marker, no pending
C10_Witness ==
    /\ Classified
    /\ ~evaluation.isPendingInHtml
    /\ ~evaluation.hasPendingButton
    /\ evaluation.hasConnectButton
    /\ ~evaluation.isConnectedInHtml
    /\ Includes(evaluation.connectionDegree, <<"1st">>)
    /\ Includes(evaluation.connectionDegree, <<"2nd">>)
    /\ connectionStatus.status = ACCEPTED

NotConnectedIndicator(e) ==
    \/ e.hasConnectButton
    \/ Includes(e.connectionDegree, <<"2nd">>)
    \/ Includes(e.connectionDegree, <<"3rd">>)

\* C11: when neither the pending rule nor the accepted rule applies, the decision
\* logic returns NOT_CONNECTED with confidence 0.9 if hasConnectButton is set or the
\* degree contains "2nd" or "3rd"; hasMessageButton and hasConnectButton both set
\* with no other indicator yields NOT_CONNECTED.
C11_NotConnectedRule ==
    (/\ Classified
     /\ ~evaluation.isPendingInHtml
     /\ ~evaluation.hasPendingButton
     /\ ~AcceptedIndicator(evaluation)
     /\ NotConnectedIndicator(evaluation))
        => (connectionStatus.status = NOT_CONNECTED /\ connectionStatus.confidence = 90)

\* Message and Connect buttons together, nothing else
C11_Witness ==
    /\ Classified
    /\ evaluation = [NoSignals EXCEPT !.hasMessageButton = TRUE, !.hasConnectButton = TRUE]
    /\ connectionStatus.status = NOT_CONNECTED

AllSignalsFalse(e) ==
    /\ ~e.hasConnectButton
    /\ ~e.hasPendingButton
    /\ ~e.hasMessageButton
    /\ ~e.isPendingInHtml
    /\ ~e.isConnectedInHtml
    /\ \A m \in DegreeMarkers : ~Includes(e.connectionDegree, m)

\* C12: the decision logic returns UNKNOWN, with confidence 0.5, exactly when all
\* five boolean signals are false and the degree contains none of "1st", "2nd",
\* "3rd"; every other signal combination gets another status.
C12_UnknownExactly ==
    Classified =>
        /\ (connectionStatus.status = UNKNOWN) <=> AllSignalsFalse(evaluation)
        /\ (connectionStatus.status = UNKNOWN) => connectionStatus.confidence = 50

\* only a "3rd" badge: the weakest indicator still gives a status other than UNKNOWN
C12_Witness ==
    /\ Classified
    /\ evaluation = [NoSignals EXCEPT !.connectionDegree = <<"3rd">>]
    /\ connectionStatus.status # UNKNOWN

\* the confidence the claim fixes for each status
ConfidenceOf(status) ==
    IF status \in {PENDING, ACCEPTED} THEN 95
    ELSE IF status = NOT_CONNECTED THEN 90
    ELSE 50

\* C13: for every PageSignals value the decision logic returns one status of
\* PENDING, ACCEPTED, NOT_CONNECTED, UNKNOWN, with the confidence fixed by that
\* status (0.95, 0.95, 0.9, 0.5), a number in [0, 1].
C13_StatusAndConfidence ==
    Classified =>
        /\ connectionStatus.status \in ProfileStatus
        /\ connectionStatus.confidence = ConfidenceOf(connectionStatus.status)
        /\ connectionStatus.confidence \in 0..100

\* a page classified not_connected at 0.9
C13_Witness ==
    /\ Classified
    /\ connectionStatus = [status |-> NOT_CONNECTED, confidence |-> 90]
    /\ evaluation.hasConnectButton

(***************************************************************************)
(* Claims about normalizeLinkedInUrl                                       *)
(***************************************************************************)
\* C4: normalizeLinkedInUrl is idempotent: normalizing a normalized URL again
\* changes nothing, for every input.
C4_Idempotent ==
    pc = "renormalized" => renormalizedUrl = normalizedUrl

\* an input with two trailing slashes has been normalized twice
C4_Witness ==
    /\ pc = "renormalized"
    /\ url = <<Host, "/", "in", "/", "/">>
    /\ normalizedUrl = <<Host, "/", "in", "/">>
    /\ renormalizedUrl = <<Host, "/", "in", "/", "in">>

Normalized == pc \in {"normalized", "renormalized"}

\* the input cut at its first '?' with one trailing slash removed
Stripped(u) == StripTrailingSlash(BeforeQuery(u))

\* s is t with "in/" put right after the first "linkedin.com/" of t
InsertedAfterHost(s, t) ==
    \E i \in 1..Len(t) :
        /\ i + 1 <= Len(t)
        /\ SubSeq(t, i, i + 1) = <<Host, "/">>
        /\ \A j \in 1..(i - 1) : SubSeq(t, j, j + 1) # <<Host, "/">>
        /\ s = SubSeq(t, 1, i + 1) \o <<"in", "/">> \o SubSeq(t, i + 2, Len(t))

\* C14 as stated: for every input that contains 'linkedin.com' and is not bare-host
\* after stripping, the result contains '/in/'.
C14_ResultHasInSegment ==
    (Normalized /\ Includes(url, <<Host>>) /\ ~EndsWith(Stripped(url), <<Host>>))
        => Includes(normalizedUrl, InSegment)

\* C14 as amended: for every input that contains 'linkedin.com' and whose stripped
\* form contains 'linkedin.com/' and does not end with 'linkedin.com', the result
\* contains '/in/'; when the stripped form had no '/in/', "in/" is inserted right
\* after its first 'linkedin.com/'.
C14_InSegmentAfterHostSlash ==
    (/\ Normalized
     /\ Includes(url, <<Host>>)
     /\ Includes(Stripped(url), <<Host, "/">>)
     /\ ~EndsWith(Stripped(url), <<Host>>))
        => /\ Includes(normalizedUrl, InSegment)
           /\ ~Includes(Stripped(url), InSegment)
                 => InsertedAfterHost(normalizedUrl, Stripped(url))

\* linkedin.com/a/?a becomes linkedin.com/in/a
C14_Witness ==
    /\ Normalized
    /\ url = <<Host, "/", "a", "/", "?", "a">>
    /\ normalizedUrl = <<Host, "/", "in", "/", "a">>

\* C15 as stated: an input that contains 'linkedin.com' and '/in/' is returned cut
\* at its first '?' with one trailing slash removed.
C15_StrippedWhenInputHasInSegment ==
    (Normalized /\ Includes(url, <<Host>>) /\ Includes(url, InSegment))
        => normalizedUrl = Stripped(url)

\* C15 as amended: an input that contains 'linkedin.com' and still contains '/in/'
\* once cut at its first '?' and relieved of one trailing slash is returned in that
\* stripped form, with at most one trailing slash removed.
C15_StrippedWhenStrippedHasInSegment ==
    (Normalized /\ Includes(url, <<Host>>) /\ Includes(Stripped(url), InSegment))
        => normalizedUrl = Stripped(url)

\* the canonical URL followed by an (empty) query string normalizes to itself
C15_Witness ==
    /\ Normalized
    /\ url = <<Host, "/", "in", "/", "a", "?">>
    /\ normalizedUrl = <<Host, "/", "in", "/", "a">>

\* C16: an input that does not contain 'linkedin.com' is returned unchanged.
C16_ForeignUrlUnchanged ==
    (Normalized /\ ~Includes(url, <<Host>>)) => normalizedUrl = url

\* a foreign URL keeps its query string and its trailing slash
C16_Witness ==
    /\ Normalized
    /\ url = <<"a", "/", "in", "/", "?", "/">>
    /\ normalizedUrl = url

\* C17: when the input, cut at its first '?' and relieved of one trailing slash,
\* ends with 'linkedin.com' and has no '/in/', the original input is returned
\* unchanged, query string and trailing slash included.
C17_BareHostUnchanged ==
    (/\ Normalized
     /\ EndsWith(Stripped(url), <<Host>>)
     /\ ~Includes(Stripped(url), InSegment))
        => normalizedUrl = url

\* linkedin.com/?a is returned as it came
C17_Witness ==
    /\ Normalized
    /\ url = <<Host, "/", "?", "a">>
    /\ normalizedUrl = url

(***************************************************************************)
(* Claims about updateProfileStatus                                        *)
(***************************************************************************)
\* the values.update calls of the updateProfileStatus call of the current profile
CallWrites == SelectSeq(writes, LAMBDA w : w.profile = idx)

\* C2: a call of updateProfileStatus whose writes all fail makes exactly 3 write
\* attempts, never a 4th, and then throws the error of the 3rd attempt to its caller
\* (the call being one that reached its writes: init had succeeded).
C2_ThreeAttemptsThenThrow ==
    /\ Len(CallWrites) <= 3
    /\ (pc = "delay" /\ initialized /\ \A i \in 1..Len(CallWrites) : ~CallWrites[i].ok)
          => /\ Len(CallWrites) = 3
             /\ updateResult = "threw"
             /\ thrown.attempt = 3

\* three failed writes, and the error of the third has reached main
C2_Witness ==
    /\ pc = "delay"
    /\ initialized
    /\ Len(CallWrites) = 3
    /\ \A i \in 1..3 : ~CallWrites[i].ok
    /\ updateResult = "threw"
    /\ thrown.attempt = 3

\* C3: when the writes of a call fail on attempts 1 and 2 and succeed on attempt 3,
\* the call returns after exactly 3 write attempts, having waited exactly twice,
\* 1000 ms and then 2000 ms, and nothing is written or waited after the success.
C3_TwoWaitsThenSuccess ==
    (/\ Len(CallWrites) >= 3
     /\ ~CallWrites[1].ok
     /\ ~CallWrites[2].ok
     /\ CallWrites[3].ok)
        => /\ Len(CallWrites) = 3
           /\ updateResult = "returned"
           /\ waits = <<1000, 2000>>
           /\ pc = "delay"

\* the call that succeeded at its third attempt has returned
C3_Witness ==
    /\ pc = "delay"
    /\ updateResult = "returned"
    /\ Len(CallWrites) = 3
    /\ CallWrites[3].ok
    /\ waits = <<1000, 2000>>

(***************************************************************************)
(* Claims about the run                                                    *)
(***************************************************************************)
\* C5: the confidence written to the store for a profile is the confidence the
\* decision logic produced for that profile.
C5_WrittenConfidenceIsClassified ==
    \A i \in 1..Len(writes) :
        writes[i].profile = idx
            => writes[i].request.values[2] = ConfidenceToString(connectionStatus.confidence)

\* a profile classified pending (0.95) has been written
C5_Witness ==
    /\ pc = "delay"
    /\ connectionStatus.status = PENDING
    /\ Len(CallWrites) = 1
    /\ CallWrites[1].ok
    /\ CallWrites[1].request.values = <<PENDING, "0.9">>

LoginPcs == {"run", "fetch", "login", "login_feed", "login_gate", "login_page", "login_wait"}
LoginEnded == pc \notin LoginPcs /\ fetchOutcome # "none"

\* C6: whenever loginToLinkedIn ends without a logged-in session, the run aborts,
\* no profile page is navigated and no store write is issued.
C6_LoginFailureFatal ==
    (LoginEnded /\ ~sessionLoggedIn)
        => (pc = "aborted" /\ navigated = <<>> /\ writes = <<>>)

\* expired cookies: loginToLinkedIn returned, and a profile was navigated and written
C6_Witness ==
    /\ cookieFile = "expired"
    /\ cookiesLoaded
    /\ ~sessionLoggedIn
    /\ navigated # <<>>
    /\ writes # <<>>

\* url and row of every profile of a list
Keys(ps) == [i \in 1..Len(ps) |-> [url |-> ps[i].url, row |-> ps[i].row]]

\* C7 as stated: when the store client cannot be initialized for the profile fetch,
\* the run aborts and no profile is processed.
C7_StoreInitFailureFatal ==
    fetchOutcome = "init_failed" => (navigated = <<>> /\ pc # "done")

\* C7 as amended: a store client that cannot be initialized for the profile fetch
\* does not end the run: main catches the error, keeps the three sample profiles
\* (rows 2, 3, 4) and goes on to the login.
C7_StoreInitFailureFallsBack ==
    /\ [][(pc = "fetch" /\ fetchOutcome' = "init_failed") => pc' = "login"]_vars
    /\ [](fetchOutcome = "init_failed" => Keys(profiles) = Keys(SampleProfiles))

\* after the failed initialization the three sample profiles were processed
C7_Witness ==
    /\ fetchOutcome = "init_failed"
    /\ pc = "done"
    /\ navigated = <<1, 2, 3>>
    /\ writes # <<>>

\* a profile whose update failed at the last attempt
PersistentFailure(p) ==
    \E i \in 1..Len(writes) :
        writes[i].profile = p /\ writes[i].attempt = maxRetries /\ ~writes[i].ok

\* C8: when the store write of a profile has failed persistently, the run produces
\* the export file: the header line and one line url,status per profile.
C8_FallbackExport ==
    (pc = "done" /\ \E p \in 1..Len(profiles) : PersistentFailure(p))
        => csvFile = CsvContent([i \in 1..Len(results) |-> profiles[results[i]]])

\* a run that ended after a persistent write failure
C8_Witness ==
    /\ pc = "done"
    /\ PersistentFailure(1)
    /\ results # <<>>
    /\ csvFile = NoFile

\* C9: once loginToLinkedIn has returned, every profile of the list is eventually
\* navigated, in list order, whatever happened to the earlier profiles.
C9_EveryProfileNavigated ==
    /\ [](\A i \in 1..Len(navigated) : navigated[i] = i)
    /\ (pc = "loop" /\ idx = 1) ~> (navigated = [i \in 1..Len(profiles) |-> i])

\* all profiles navigated although the first failed to load, the second was
\* classified but never written, and the third exhausted its retries
C9_Witness ==
    /\ pc = "done"
    /\ Len(profiles) = 3
    /\ navigated = <<1, 2, 3>>
    /\ profiles[1].status = Absent
    /\ profiles[2].status # Absent
    /\ \A i \in 1..Len(writes) : writes[i].profile = 3
    /\ PersistentFailure(3)

(***************************************************************************)
(* Claims about the write requests of updateProfileStatus                  *)
(***************************************************************************)
\* C18: each attempt of updateProfileStatus makes exactly one write call, and every
\* attempt of one call targets the range B<row>:C<row> of the given row with the
\* same values [status, confidence]; no attempt touches another row or column A
C18_OneWritePerAttemptSameRange ==
    /\ \A i \in 1..Len(CallWrites) :
          /\ CallWrites[i].attempt = i
          /\ CallWrites[i].request.row = MainUpdateCall.rowNumber
          /\ CallWrites[i].request.columns = <<"B", "C">>
          /\ CallWrites[i].request.values =
                <<MainUpdateCall.status, ConfidenceToString(MainUpdateCall.confidence)>>
    /\ pc = "attempt" => Len(CallWrites) = attempt - 1
    /\ (pc = "delay" /\ updateResult \in {"returned", "threw"} /\ initialized) =>
          Len(CallWrites) = attempt
    /\ \A i \in 1..Len(writes) :
          /\ writes[i].request.row = profiles[writes[i].profile].row
          /\ "A" \notin {writes[i].request.columns[c] : c \in 1..Len(writes[i].request.columns)}

\* the third attempt of one call has written, after two failed writes
C18_Witness ==
    /\ pc = "delay"
    /\ Len(CallWrites) = 3
    /\ ~CallWrites[1].ok /\ ~CallWrites[2].ok /\ CallWrites[3].ok
    /\ CallWrites[3].request = CallWrites[1].request
    /\ CallWrites[3].request.row = 3

(***************************************************************************)
(* Claims about getProfiles                                                *)
(***************************************************************************)
\* C19: getProfiles gives every non-blank cell of column A, read from A2 downward,
\* the row number of its sheet position (list index + 2); blank cells are skipped
\* without renumbering the cells after them, so the rows are all >= 2, strictly
\* increasing and unique, and a profile's row never changes afterwards in the run
C19_RowIsSheetPosition ==
    /\ [](fetchOutcome = "fetched" =>
            /\ \A i \in 1..Len(profiles) :
                  /\ profiles[i].row >= 2
                  /\ profiles[i].row - 1 \in 1..Len(sheetRows)
                  /\ ~IsBlank(sheetRows[profiles[i].row - 1])
                  /\ profiles[i].url = normalizeLinkedInUrl(sheetRows[profiles[i].row - 1])
            /\ \A i, j \in 1..Len(profiles) : i < j => profiles[i].row < profiles[j].row
            /\ \A k \in 1..Len(sheetRows) :
                  ~IsBlank(sheetRows[k]) => \E i \in 1..Len(profiles) : profiles[i].row = k + 1)
    /\ [][pc # "fetch" =>
            /\ Len(profiles') = Len(profiles)
            /\ \A i \in 1..Len(profiles) : profiles'[i].row = profiles[i].row]_vars

\* a sheet whose A2 is blank: the profile of A3 keeps row 3 to the end of the run,
\* through its classification and its write
C19_Witness ==
    /\ pc = "done"
    /\ fetchOutcome = "fetched"
    /\ Len(sheetRows) = 2
    /\ IsBlank(sheetRows[1])
    /\ Len(profiles) = 1
    /\ profiles[1].row = 3
    /\ profiles[1].status # Absent
    /\ Len(writes) = 1

(***************************************************************************)
(* Claims about the order of the run                                       *)
(***************************************************************************)
\* the writes of profile p have ended: none was made, or the last one succeeded
\* or was the last attempt allowed
WritesEnded(p) ==
    LET ws == SelectSeq(writes, LAMBDA w : w.profile = p)
    IN ws = <<>> \/ ws[Len(ws)].ok \/ ws[Len(ws)].attempt = maxRetries

\* C20: profiles are processed strictly one at a time: the store write for profile
\* i, with all its retries and backoff waits, has ended in success or terminal
\* failure before navigation to profile i+1 begins, so two classifications or two
\* writes are never in flight together and writes reach the store in input order
C20_OneProfileAtATime ==
    /\ pc \in {"loop", "navigate", "ratecheck", "classify", "update"} =>
          (updateResult = "none" /\ attempt = 0 /\ waits = <<>>)
    /\ pc = "delay" => updateResult # "running"
    /\ pc \in {"navigate", "loop", "done"} => navigated = [i \in 1..(idx - 1) |-> i]
    /\ pc \in {"ratecheck", "classify", "update", "attempt", "delay"} =>
          navigated = [i \in 1..idx |-> i]
    /\ \A p \in 1..Len(profiles) : (p < idx \/ pc \notin {"attempt"}) => WritesEnded(p)
    /\ \A i \in 1..Len(writes) : writes[i].profile <= idx
    /\ \A i, j \in 1..Len(writes) : i < j => writes[i].profile <= writes[j].profile

\* the second profile is being navigated to after the write of the first went
\* through two backoff waits and failed for good
C20_Witness ==
    /\ pc = "ratecheck"
    /\ idx = 2
    /\ navigated = <<1, 2>>
    /\ Len(writes) = 3
    /\ \A i \in 1..3 : writes[i].profile = 1 /\ ~writes[i].ok
    /\ delays = <<ProfileDelay>>

(***************************************************************************)
(* Claims about a run without failures                                     *)
(***************************************************************************)
\* every profile was classified (its page loaded and was not rate limited), every
\* update call reached its write and no write failed
FaultlessRun ==
    /\ pc = "done"
    /\ results = [i \in 1..Len(profiles) |-> i]
    /\ accessFailures = 0
    /\ \A i \in 1..Len(writes) : writes[i].ok

\* C21: in a run where every page loads and every write succeeds at its first
\* attempt, exactly one write is issued per profile, in input order, at that
\* profile's row and carrying that profile's classified status (rows 2 and 3 with
\* Pending and Connect signals: row 2 pending, then row 3 not_connected)
C21_OneWritePerProfileInOrder ==
    FaultlessRun =>
        /\ Len(writes) = Len(profiles)
        /\ \A i \in 1..Len(writes) :
              /\ writes[i].profile = i
              /\ writes[i].attempt = 1
              /\ writes[i].request.row = profiles[i].row
              /\ writes[i].request.columns = <<"B", "C">>
              /\ writes[i].request.values[1] = profiles[i].status
              /\ profiles[i].status \in ProfileStatus

\* the run of the two fetched profiles at rows 2 and 3, classified pending and
\* not_connected
C21_Witness ==
    /\ FaultlessRun
    /\ fetchOutcome = "fetched"
    /\ Len(profiles) = 2
    /\ [i \in 1..2 |-> writes[i].request.row] = <<2, 3>>
    /\ [i \in 1..2 |-> writes[i].request.values[1]] = <<PENDING, NOT_CONNECTED>>

(***************************************************************************)
(* Claims about the cookie file                                            *)
(***************************************************************************)
\* C23: within one run the cookie file is read at most once, at the start of login,
\* and written at most once, and only after the manual login navigation succeeded:
\* never when the session was restored from saved cookies or when login failed
C23_CookieFileOnce ==
    /\ [](cookieReads <= 1 /\ cookieWrites <= 1)
    /\ [](cookieWrites = 1 => (~cookiesLoaded /\ sessionLoggedIn /\ pc # "aborted"))
    /\ [][cookieReads' # cookieReads => pc = "login"]_vars
    /\ [][cookieWrites' # cookieWrites =>
            (pc = "login_wait" /\ pc' = "loop" /\ sessionLoggedIn')]_vars

\* a cookie file that could not be parsed was read once, and the cookies of the
\* manual login that followed were written once; the run has ended
C23_Witness ==
    /\ pc = "done"
    /\ cookieReads = 1
    /\ cookieWrites = 1
    /\ ~cookiesLoaded
    /\ cookieFile = "valid"

(***************************************************************************)
(* Claims about the status of a profile                                    *)
(***************************************************************************)
\* the classification of profile i has completed
ClassificationCompleted(i) ==
    /\ \E k \in 1..Len(results) : results[k] = i
    /\ i < idx \/ (i = idx /\ pc \in {"update", "attempt", "delay"})

\* C24: a profile's status is absent until its classification has completed and is
\* assigned at most once during a run; a profile whose navigation failed or whose
\* page was rate limited keeps status absent, and no store write is ever issued for
\* a profile whose status is absent
C24_StatusAssignedOnce ==
    /\ [](\A i \in 1..Len(profiles) :
            /\ profiles[i].status # Absent <=> ClassificationCompleted(i)
            /\ profiles[i].status \in ProfileStatus \cup {Absent})
    /\ [](\A w \in 1..Len(writes) :
            /\ profiles[writes[w].profile].status # Absent
            /\ writes[w].request.values[1] = profiles[writes[w].profile].status)
    /\ [][\A i \in 1..Len(profiles) :
            profiles[i].status # Absent => profiles'[i].status = profiles[i].status]_vars
    /\ [][(pc \in {"navigate", "ratecheck"} /\ pc' = "delay") =>
            (profiles' = profiles /\ profiles[idx].status = Absent /\ writes' = writes)]_vars

\* at the end of the run the first profile, whose page did not get past navigation
\* and rate check, has no status and no write, and the second has both
C24_Witness ==
    /\ pc = "done"
    /\ Len(profiles) = 2
    /\ results = <<2>>
    /\ profiles[1].status = Absent
    /\ profiles[2].status = ACCEPTED
    /\ Len(writes) = 1
    /\ writes[1].profile = 2

(***************************************************************************)
(* Claims about permission errors of the write                             *)
(***************************************************************************)
\* C25: a permission-denied write failure is handled by the retry layer exactly
\* like a transient one: the same number of attempts (up to 3), the same waits and
\* the same propagated terminal failure; only the diagnostic reported to the
\* operator differs, and in neither case does the batch stop
C25_PermissionRetriedLikeTransient ==
    /\ [](\A kind \in ErrorKinds :
            (pc = "delay" /\ updateResult = "threw" /\ initialized /\ thrown.kind = kind)
               => /\ thrown.attempt = maxRetries
                  /\ Len(CallWrites) = maxRetries
                  /\ \A i \in 1..Len(CallWrites) : ~CallWrites[i].ok
                  /\ waits = [i \in 1..(maxRetries - 1) |-> i * 1000]
                  /\ diagnostic = IF kind = "permission" THEN "not_writable" ELSE "generic")
    /\ [][(pc = "attempt" /\ updateResult' = "threw") => pc' = "delay"]_vars
    /\ [][pc = "delay" => (pc' = "loop" /\ idx' = idx + 1)]_vars

\* the write of a profile was denied three times: two waits, the error thrown at
\* the third attempt and diagnosed as a sheet that is not writable
C25_Witness ==
    /\ pc = "delay"
    /\ initialized
    /\ updateResult = "threw"
    /\ thrown = [kind |-> "permission", attempt |-> 3]
    /\ waits = <<1000, 2000>>
    /\ Len(CallWrites) = 3
    /\ diagnostic = "not_writable"

(***************************************************************************)
(* Claims about the manual login and about the rows written                *)
(***************************************************************************)
\* C26: whenever the cookie file is absent, unreadable, or was loaded but the
\* session is found not logged in, loginToLinkedIn opens the login page and waits
\* for the user to log in before it returns normally
C26_ManualLoginWhenCookiesFail ==
    [][pc = "login_gate" => pc' = "login_page"]_vars

\* expired cookies were loaded, the session was found not logged in, and
\* loginToLinkedIn has returned to the loop without the login page
C26_Witness ==
    /\ pc = "loop"
    /\ idx = 1
    /\ cookieFile = "expired"
    /\ cookiesLoaded
    /\ ~sessionLoggedIn
    /\ cookieWrites = 0

\* C27: every row written to the store during a run is the row of a profile that
\* was read from that store in the same run: when the profile fetch fails or
\* returns no profiles, the run issues no write to any row of the store
C27_WritesOnlyFetchedRows ==
    /\ fetchOutcome # "fetched" => writes = <<>>
    /\ \A w \in 1..Len(writes) :
          /\ writes[w].request.row - 1 \in 1..Len(sheetRows)
          /\ ~IsBlank(sheetRows[writes[w].request.row - 1])

\* the sheet read threw, and row 2, the row of the first sample profile, was written
C27_Witness ==
    /\ fetchOutcome = "read_failed"
    /\ Len(writes) >= 1
    /\ writes[1].ok
    /\ writes[1].request.row = SampleProfiles[1].row

(***************************************************************************)
(* Claims about the access check of updateProfileStatus                    *)
(***************************************************************************)
\* C30: updateProfileStatus on a client that is not yet initialized first verifies
\* access with init; if init fails, the error is propagated with zero write
\* attempts and without any retry, and since main builds a new client for each
\* profile this check precedes the write of every profile
C30_InitBeforeEveryWrite ==
    /\ [](pc = "update" => (~initialized /\ CallWrites = <<>>))
    /\ [](CallWrites # <<>> => initialized)
    /\ []((pc = "delay" /\ updateResult = "threw" /\ ~initialized)
            => (CallWrites = <<>> /\ waits = <<>> /\ attempt = 0 /\ thrown.attempt = 0))
    /\ [][(pc = "update" /\ ~initialized') =>
            (pc' = "delay" /\ writes' = writes /\ waits' = waits)]_vars
    /\ [][writes' # writes => (initialized /\ pc = "attempt")]_vars

\* the third profile's init failed after the first two profiles were written: no
\* write and no wait for it, and the error has reached main
C30_Witness ==
    /\ pc = "delay"
    /\ idx = 3
    /\ ~initialized
    /\ updateResult = "threw"
    /\ thrown.attempt = 0
    /\ Len(writes) = 2
    /\ writes[1].profile = 1 /\ writes[2].profile = 2
    /\ accessFailures = 1

(***************************************************************************)
(* Claims about the configuration                                          *)
(***************************************************************************)
\* the number a delay option stands for
DelayMs(str) == IF str = "5000" THEN 5000 ELSE IF str = "3000" THEN 3000 ELSE 0

\* the configured delay: PROFILE_CHECK_DELAY, or 3000 ms when it is not set
ConfiguredDelay(e) ==
    IF e.PROFILE_CHECK_DELAY = Unset THEN 3000 ELSE DelayMs(e.PROFILE_CHECK_DELAY)

\* C22: the delay waited between profiles is the configured delay: the value of the
\* -d/--delay option (written to PROFILE_CHECK_DELAY), 3000 ms when nothing is
\* configured
C22_DelayIsConfigured ==
    \A i \in 1..Len(delays) : delays[i] = ConfiguredDelay(env)

\* run.sh -d 5000: the run has waited 3000 ms after its first profile
C22_Witness ==
    /\ env.PROFILE_CHECK_DELAY = "5000"
    /\ Len(delays) >= 1
    /\ delays[1] = 3000

\* the key of the provider that process.env names
ProviderKey(e) ==
    IF e.AI_PROVIDER = "openai" THEN e.OPENAI_API_KEY ELSE e.ANTHROPIC_API_KEY

\* C28: the LLM client handed to Stagehand reflects the provider and API key entered
\* during setup: an OpenAI client when the user chose openai, an Anthropic client
\* when the user chose anthropic, never a client selected from the environment as
\* it stood before setup
C28_ClientReflectsSetup ==
    (pc = "stagehand_built" /\ ProviderKey(env) # "")
        => stagehandLlmClient = [type |-> env.AI_PROVIDER, apiKey |-> ProviderKey(env)]

\* the user chose openai and entered a key, and the Stagehand instance holds the
\* Anthropic client of the .env file the program started with
C28_Witness ==
    /\ pc = "stagehand_built"
    /\ env.AI_PROVIDER = "openai"
    /\ env.OPENAI_API_KEY = "sk-new"
    /\ stagehandLlmClient = [type |-> "anthropic", apiKey |-> "sk-file"]

(***************************************************************************)
(* Claims about updateStatus                                               *)
(***************************************************************************)
\* the sheet rows of the cells of column A that normalize to the normalized URL
MatchingRows ==
    { k \in 1..Len(columnA) : normalizeLinkedInUrl(columnA[k]) = normalizeLinkedInUrl(url) }

\* the same, of the cells that are not empty
\* (an empty cell is never a match of the code)
FilledMatchingRows == { k \in MatchingRows : columnA[k] # <<>> }

FirstRow(rowSet) == CHOOSE k \in rowSet : \A j \in rowSet : k <= j

\* getProfiles numbers the cell of sheet row k with k
NumberedByGetProfiles(k) ==
    LET fetched == getProfiles(Tail(columnA))
    IN \E i \in 1..Len(fetched) :
          /\ fetched[i].row = k
          /\ fetched[i].url = normalizeLinkedInUrl(columnA[k])

\* C29 as stated: updateStatus with a profile URL and no rowIndex writes to the sheet
\* row of the first cell of column A whose normalized value equals the normalized
\* URL, which is the row number getProfiles assigns to that cell; when no cell
\* matches it raises an error and issues no write
C29_WritesRowOfFirstMatch ==
    pc = "updatestatus_done" =>
        /\ writes # <<>> =>
              /\ MatchingRows # {}
              /\ \A w \in 1..Len(writes) : writes[w].request.row = FirstRow(MatchingRows)
              /\ NumberedByGetProfiles(FirstRow(MatchingRows))
        /\ MatchingRows = {} => (writes = <<>> /\ updateResult = "threw")

\* C29 as amended: the write goes to the sheet row of the first non-empty cell of
\* column A (A1 included) that normalizes to the normalized URL; when that cell is
\* at A2 or below and not blank, this is the row number getProfiles assigns to it;
\* when no non-empty cell matches, an error is raised and no write is issued
C29_WritesRowOfFirstFilledMatch ==
    pc = "updatestatus_done" =>
        /\ writes # <<>> =>
              /\ FilledMatchingRows # {}
              /\ \A w \in 1..Len(writes) :
                    /\ writes[w].request.row = FirstRow(FilledMatchingRows)
                    /\ writes[w].request.columns = <<"B", "C">>
              /\ (FirstRow(FilledMatchingRows) >= 2
                     /\ ~IsBlank(columnA[FirstRow(FilledMatchingRows)]))
                    => NumberedByGetProfiles(FirstRow(FilledMatchingRows))
        /\ FilledMatchingRows = {} => (writes = <<>> /\ updateResult = "threw")
        /\ thrown.kind = "not_found" => FilledMatchingRows = {}
        /\ (FilledMatchingRows # {} /\ writes = <<>>) =>
              (updateResult = "threw" /\ thrown.attempt = 0 /\ thrown.kind \in ErrorKinds)

\* header in A1, A2 empty, the profile in A3 with a trailing slash: the URL without
\* the slash was written to row 3, the row getProfiles gives that cell
C29_Witness ==
    /\ pc = "updatestatus_done"
    /\ columnA = << <<"a">>, <<>>, <<Host, "/", "in", "/", "a", "/">> >>
    /\ url = <<Host, "/", "in", "/", "a">>
    /\ Len(writes) = 1
    /\ writes[1].ok
    /\ writes[1].request.row = 3
    /\ NumberedByGetProfiles(3)

====
